---- MODULE Spec2Model ----
(***************************************************************************)
(* A model of the Buck2 MCP server of src/main.py: the Process Runner      *)
(* (run_buck2_command), the four tool handlers (buck2_build, buck2_test,   *)
(* buck2_query, buck2_targets) and the two resource readers                *)
(* (get_buck2_config, get_buck2_root).                                     *)
(*                                                                         *)
(* Text is a sequence of strings.  What a child process or a file holds is *)
(* a sequence of bytes, each a one-character string or BadByte; decoded    *)
(* text is a sequence of one-character strings; text the program builds    *)
(* itself (a joined command line, a message, serialized JSON) is a         *)
(* sequence of pieces whose concatenation is the Python string.            *)
(***************************************************************************)
EXTENDS Integers, Sequences, FiniteSets, TLC

\* ------------------------------------------------------------------ bounds

\* Bytes one child process writes, stdout and stderr together.
MaxOut == 3

\* Bytes in one configuration file.
MaxFile == 2

\* Requests that may be in flight at the same time.
NumThreads == 2

\* ------------------------------------------------------- values and inputs

None == "<none>"

Tool == "buck2"

NotFoundCode == 127

\* A byte that starts no UTF-8 sequence.
BadByte == "\\xff"

Chars == {"1", "[", "]", "\n", "\r"}

Bytes == Chars \cup {BadByte}

BytesUpTo(n) == UNION {[1..k -> Bytes] : k \in 0..n}

\* Nested calls the interpreter allows (sys.getrecursionlimit()).
RecursionLimit == 1000

\* Digits the interpreter converts to an int (sys.get_int_max_str_digits()).
IntMaxStrDigits == 4300

\* A run of RecursionLimit characters "[", as one piece of text.
DeepOpen == "[*1000"

\* A run of IntMaxStrDigits + 1 digits "1", as one piece of text.
LongDigits == "1*4301"

\* What a child can write to stdout: the bytes, and the long runs.
OutBytes == Bytes \cup {DeepOpen, LongDigits}

OutBytesUpTo(n) == UNION {[1..k -> OutBytes] : k \in 0..n}

\* Characters in one piece of text.
PieceLen(c) ==
    CASE c = DeepOpen -> RecursionLimit
      [] c = LongDigits -> IntMaxStrDigits + 1
      [] OTHER -> 1

ReturnCodes == {0, 1, -9}

Targets == {"//...", "//foo:bar"}

Queries == {"deps(//...)"}

Formats == {"json", "dot"}

DigitStr == <<"0", "1", "2", "3", "4", "5", "6", "7", "8", "9">>

Range(s) == {s[i] : i \in 1..Len(s)}

RECURSIVE Decimal(_)
\* str(n) of a natural number, digit by digit.
Decimal(n) ==
    IF n < 10 THEN <<DigitStr[n + 1]>>
    ELSE Decimal(n \div 10) \o <<DigitStr[(n % 10) + 1]>>

RECURSIVE CharLen(_)
\* len(s) of a text given as pieces.
CharLen(s) == IF s = <<>> THEN 0 ELSE PieceLen(s[1]) + CharLen(Tail(s))

\* ------------------------------------------- text mode: decode and newlines

RECURSIVE FirstBad(_, _)
\* Index of the first undecodable byte at or after i, 0 when there is none.
FirstBad(b, i) ==
    IF i > Len(b) THEN 0
    ELSE IF b[i] = BadByte THEN i
    ELSE FirstBad(b, i + 1)

Decodable(b) == FirstBad(b, 1) = 0

\* str(e) of the UnicodeDecodeError the strict UTF-8 decoder raises on b.
UnicodeDecodeErrorMsg(b) ==
    << "'utf-8' codec can't decode byte 0xff in position " >>
    \o Decimal(CharLen(SubSeq(b, 1, FirstBad(b, 1) - 1)))
    \o << ": invalid start byte" >>

RECURSIVE TranslateNewlines(_)
\* Universal newlines on input: "\r\n" and a lone "\r" both become "\n".
TranslateNewlines(s) ==
    IF s = <<>> THEN <<>>
    ELSE IF s[1] = "\r"
         THEN <<"\n">> \o
              TranslateNewlines(IF Len(s) >= 2 /\ s[2] = "\n"
                                THEN SubSeq(s, 3, Len(s))
                                ELSE Tail(s))
         ELSE <<s[1]>> \o TranslateNewlines(Tail(s))

\* A byte stream read in text mode (text=True, open(..., 'r')).
DecodeText(b) == TranslateNewlines(b)

\* -------------------------------------------------------------- str.strip

Whitespace == {" ", "\t", "\n", "\r"}

RECURSIVE LStrip(_)
LStrip(s) ==
    IF s # <<>> /\ s[1] \in Whitespace THEN LStrip(Tail(s)) ELSE s

RECURSIVE RStrip(_)
RStrip(s) ==
    IF s # <<>> /\ s[Len(s)] \in Whitespace
    THEN RStrip(SubSeq(s, 1, Len(s) - 1))
    ELSE s

Strip(s) == RStrip(LStrip(s))

\* ------------------------------------------------------------- json.loads

RECURSIVE SkipWs(_, _)
SkipWs(s, i) ==
    IF i <= Len(s) /\ s[i] \in Whitespace THEN SkipWs(s, i + 1) ELSE i

\* json.JSONDecodeError: the text is no JSON document.
JsonFail ==
    [ok |-> FALSE, val |-> [t |-> "none", v |-> 0], pos |-> 0,
     exc |-> [type |-> "JSONDecodeError", msg |-> <<>>]]

\* An exception of the decoder that is no JSONDecodeError.
JsonRaise(type, msg) ==
    [ok |-> FALSE, val |-> [t |-> "none", v |-> 0], pos |-> 0,
     exc |-> [type |-> type, msg |-> msg]]

\* int() refuses a number of n digits, n being over the limit.
IntTooLong(n) ==
    JsonRaise("ValueError",
        <<"Exceeds the limit (4300 digits) for integer string conversion: ",
          "value has ">> \o Decimal(n) \o
        <<" digits; use sys.set_int_max_str_digits() to increase the limit">>)

\* The scanner is RecursionLimit arrays deep.
TooDeep ==
    JsonRaise("RecursionError",
        <<"maximum recursion depth exceeded while decoding a JSON array ",
          "from a unicode string">>)

RECURSIVE ScanInt(_, _, _, _)
\* The run of digits "1" from i on, read as a decimal integer; n counts
\* the digits read so far.
ScanInt(s, i, acc, n) ==
    IF i <= Len(s) /\ s[i] = "1"
    THEN ScanInt(s, i + 1, 10 * acc + 1, n + 1)
    ELSE IF i <= Len(s) /\ s[i] = LongDigits
    THEN ScanInt(s, i + 1, acc, n + PieceLen(LongDigits))
    ELSE IF n > IntMaxStrDigits THEN IntTooLong(n)
    ELSE [ok |-> TRUE, val |-> [t |-> "int", v |-> acc], pos |-> i,
          exc |-> [type |-> None, msg |-> <<>>]]

RECURSIVE ParseValue(_, _)
RECURSIVE ParseElems(_, _, _)

\* The elements of an array after its first, up to the closing bracket.
ParseElems(s, i, acc) ==
    LET j == SkipWs(s, i) IN
    IF j > Len(s) THEN JsonFail
    ELSE IF s[j] = "]"
         THEN [ok |-> TRUE, val |-> [t |-> "list", v |-> acc], pos |-> j + 1,
               exc |-> [type |-> None, msg |-> <<>>]]
    ELSE IF s[j] = ","
         THEN LET e == ParseValue(s, SkipWs(s, j + 1)) IN
              IF e.ok THEN ParseElems(s, e.pos, Append(acc, e.val))
              ELSE e
    ELSE JsonFail

\* One JSON value starting exactly at i, over the model's alphabet: an
\* integer written with the digit "1", or an array.  What the scanner
\* raises inside an array leaves the arrays around it as it is.
ParseValue(s, i) ==
    IF i > Len(s) THEN JsonFail
    ELSE IF s[i] \in {"1", LongDigits} THEN ScanInt(s, i, 0, 0)
    ELSE IF s[i] = DeepOpen THEN TooDeep
    ELSE IF s[i] = "["
         THEN LET j == SkipWs(s, i + 1) IN
              IF j <= Len(s) /\ s[j] = "]"
              THEN [ok |-> TRUE, val |-> [t |-> "list", v |-> <<>>],
                    pos |-> j + 1, exc |-> [type |-> None, msg |-> <<>>]]
              ELSE LET e == ParseValue(s, j) IN
                   IF e.ok THEN ParseElems(s, e.pos, <<e.val>>)
                   ELSE e
    ELSE JsonFail

\* json.loads(s): the value, or the exception raised: JSONDecodeError for
\* text that is no JSON document, RecursionError for arrays nested to the
\* recursion limit, ValueError for an integer of too many digits.
JsonLoads(s) ==
    LET r == ParseValue(s, SkipWs(s, 1)) IN
    IF ~r.ok THEN [ok |-> FALSE, val |-> r.val, exc |-> r.exc]
    ELSE IF SkipWs(s, r.pos) = Len(s) + 1
    THEN [ok |-> TRUE, val |-> r.val, exc |-> r.exc]
    ELSE [ok |-> FALSE, val |-> JsonFail.val, exc |-> JsonFail.exc]

\* -------------------------------------------------------------- str.join

RECURSIVE Join(_, _)
\* sep.join(parts), as pieces.
Join(parts, sep) ==
    IF parts = <<>> THEN <<>>
    ELSE IF Len(parts) = 1 THEN parts
    ELSE <<parts[1], sep>> \o Join(Tail(parts), sep)

\* ------------------------------------------------------------- json.dumps

\* One piece of a string inside a JSON string literal.
EscapePiece(c) ==
    CASE c = "\n" -> "\\n"
      [] c = "\r" -> "\\r"
      [] c = "\t" -> "\\t"
      [] c = "\"" -> "\\\""
      [] c = "\\" -> "\\\\"
      [] OTHER -> c

DumpsStr(s) == <<"\"">> \o [i \in 1..Len(s) |-> EscapePiece(s[i])] \o <<"\"">>

RECURSIVE DumpsItems(_)
\* The items of a non-empty list, one per line at the nested indent.
DumpsItems(items) ==
    IF Len(items) = 1 THEN <<"    ">> \o DumpsStr(items[1])
    ELSE <<"    ">> \o DumpsStr(items[1]) \o <<",", "\n">> \o
         DumpsItems(Tail(items))

DumpsValue(f) ==
    IF f.t = "str" THEN DumpsStr(f.v)
    ELSE IF f.v = <<>> THEN <<"[]">>
    ELSE <<"[", "\n">> \o DumpsItems(f.v) \o <<"\n", "  ", "]">>

RECURSIVE DumpsFields(_)
DumpsFields(fields) ==
    LET one == <<"  ">> \o DumpsStr(<<fields[1].k>>) \o <<": ">> \o
               DumpsValue(fields[1])
    IN  IF Len(fields) = 1 THEN one
        ELSE one \o <<",", "\n">> \o DumpsFields(Tail(fields))

\* json.dumps(obj, indent=2) of a dict, given as its items in insertion
\* order: [k |-> key, t |-> "str" or "list", v |-> the text or the texts].
JsonDumps(fields) ==
    IF fields = <<>> THEN <<"{}">>
    ELSE <<"{", "\n">> \o DumpsFields(fields) \o <<"\n", "}">>

StrField(key, text) == [k |-> key, t |-> "str", v |-> text]

ListField(key, texts) == [k |-> key, t |-> "list", v |-> texts]

\* ------------------------------------------------------------------ repr

RECURSIVE ReprBody(_)
ReprBody(s) ==
    IF s = <<>> THEN <<>>
    ELSE (CASE s[1] = "\n" -> <<"\\", "n">>
            [] s[1] = "\r" -> <<"\\", "r">>
            [] s[1] = "\t" -> <<"\\", "t">>
            [] s[1] = "\\" -> <<"\\", "\\">>
            [] OTHER -> <<s[1]>>) \o ReprBody(Tail(s))

\* repr(s) of a str holding no quote: str(OSError) names its path so.
Repr(s) == <<"'">> \o ReprBody(s) \o <<"'">>

\* --------------------------------------------------------- subprocess.run

\* What subprocess.run can come to, by the errno of the failed exec or the
\* child's exit.  ENOENT: the executable is on no directory of the search
\* path and the last entry tried is a directory.  ENOTDIR: it is on none
\* and the last entry tried is not a directory.  EACCES: it is there and
\* may not be executed.  ENOEXEC: it is there and is no program.
\* Otherwise the child runs, writes out and err and exits.
LaunchNotFound ==
    [kind |-> "ENOENT", returncode |-> 0, out |-> <<>>, err |-> <<>>]

LaunchNotADir ==
    [kind |-> "ENOTDIR", returncode |-> 0, out |-> <<>>, err |-> <<>>]

LaunchDenied ==
    [kind |-> "EACCES", returncode |-> 0, out |-> <<>>, err |-> <<>>]

LaunchExecFormat ==
    [kind |-> "ENOEXEC", returncode |-> 0, out |-> <<>>, err |-> <<>>]

\* os.getcwd() fails, the working directory being gone: the runner does not
\* come to subprocess.run.
NoCwd == [kind |-> "NOCWD", returncode |-> 0, out |-> <<>>, err |-> <<>>]

Exited(rc, o, e) ==
    [kind |-> "exited", returncode |-> rc, out |-> o, err |-> e]

Launches ==
    {LaunchNotFound, LaunchNotADir, LaunchDenied, LaunchExecFormat} \cup
    {Exited(rc, oe[1], oe[2]) : rc \in ReturnCodes,
        oe \in {x \in OutBytesUpTo(MaxOut) \X BytesUpTo(MaxOut) :
                    Len(x[1]) + Len(x[2]) <= MaxOut}}

Raise(type, msg) == [kind |-> "raise", exc |-> [type |-> type, msg |-> msg]]

Return(v) == [kind |-> "return", value |-> v]

\* subprocess.run(cmd, capture_output=True, text=True, check=False).
SubprocessRun(cmd, p) ==
    CASE p.kind = "ENOENT" ->
            Raise("FileNotFoundError",
                  <<"[Errno 2] No such file or directory: '", cmd[1], "'">>)
      [] p.kind = "ENOTDIR" ->
            Raise("NotADirectoryError",
                  <<"[Errno 20] Not a directory: '", cmd[1], "'">>)
      [] p.kind = "EACCES" ->
            Raise("PermissionError",
                  <<"[Errno 13] Permission denied: '", cmd[1], "'">>)
      [] p.kind = "ENOEXEC" ->
            Raise("OSError",
                  <<"[Errno 8] Exec format error: '", cmd[1], "'">>)
      [] OTHER ->
            IF ~Decodable(p.out)
            THEN Raise("UnicodeDecodeError", UnicodeDecodeErrorMsg(p.out))
            ELSE IF ~Decodable(p.err)
            THEN Raise("UnicodeDecodeError", UnicodeDecodeErrorMsg(p.err))
            ELSE Return([returncode |-> p.returncode,
                         stdout |-> DecodeText(p.out),
                         stderr |-> DecodeText(p.err)])

\* --------------------------------------------------------- Process Runner

NotFoundMessage ==
    <<Tool, " command not found. Please ensure Buck2 is installed and in PATH.">>

\* A faulty Success: a child killed by a signal (negative code) would count
\* as a success.
SuccessNonNegative(returncode) == returncode >= 0

Success(returncode) == returncode = 0

\* The except clause of run_buck2_command, for an exception of the try body.
run_buck2_command_except(args, exc) ==
    IF exc.type = "FileNotFoundError"
    THEN Return([success |-> FALSE,
                 stdout |-> <<>>,
                 stderr |-> NotFoundMessage,
                 returncode |-> NotFoundCode,
                 command |-> Join(<<Tool>> \o args, " ")])
    ELSE [kind |-> "raise", exc |-> exc]

\* run_buck2_command(args) in environment p: cwd is not passed, so
\* os.getcwd() is evaluated first, inside the try, and then subprocess.run.
run_buck2_command(args, p) ==
    LET cmd == <<Tool>> \o args
        r == IF p.kind = "NOCWD"
             THEN Raise("FileNotFoundError",
                        <<"[Errno 2] No such file or directory">>)
             ELSE SubprocessRun(cmd, p)
    IN  IF r.kind = "return"
        THEN Return([success |-> Success(r.value.returncode),
                     stdout |-> r.value.stdout,
                     stderr |-> r.value.stderr,
                     returncode |-> r.value.returncode,
                     command |-> Join(cmd, " ")])
        ELSE run_buck2_command_except(args, r.exc)

\* --------------------------------------------------------------- handlers

\* A parameter the caller left out takes its default.
Param(given, default) == IF given = None THEN default ELSE given

buck2_build_args(targets) == <<"build", targets>>

buck2_test_args(targets) == <<"test", targets>>

buck2_query_args(query, output_format) ==
    <<"cquery", query, "--output-format", Param(output_format, "json")>>

\* A faulty buck2_targets_args: the default pattern is not filled in.
buck2_targets_args_as_given(pattern) == <<"targets", pattern>>

buck2_targets_args(pattern) == <<"targets", Param(pattern, "//...")>>

get_buck2_root_args == <<"root", "--kind=project">>

\* A faulty buck2_query_post: stdout is parsed whatever the format.
buck2_query_post_any_format(output_format, result) ==
    LET parsed == JsonLoads(result.stdout) IN
    IF result.success
    THEN IF parsed.ok
         THEN Return([success |-> result.success,
                      stdout |-> result.stdout,
                      stderr |-> result.stderr,
                      returncode |-> result.returncode,
                      command |-> result.command,
                      parsed_output |-> parsed.val])
         ELSE IF parsed.exc.type = "JSONDecodeError" THEN Return(result)
         ELSE Raise(parsed.exc.type, parsed.exc.msg)
    ELSE Return(result)

\* The tail of buck2_query, once the runner has returned result: the dict
\* with parsed_output added, the dict as it is when json.loads raises
\* JSONDecodeError, and any other exception of json.loads raised on.
buck2_query_post(output_format, result) ==
    LET parsed == JsonLoads(result.stdout) IN
    IF Param(output_format, "json") = "json" /\ result.success
    THEN IF parsed.ok
         THEN Return([success |-> result.success,
                      stdout |-> result.stdout,
                      stderr |-> result.stderr,
                      returncode |-> result.returncode,
                      command |-> result.command,
                      parsed_output |-> parsed.val])
         ELSE IF parsed.exc.type = "JSONDecodeError" THEN Return(result)
         ELSE Raise(parsed.exc.type, parsed.exc.msg)
    ELSE Return(result)

\* What the filesystem answers while get_buck2_root looks under the root:
\* whether the path exists, and what the recursive glob for BUCK yields:
\* paths below the root, or an OSError with its strerror at the path it
\* failed on, the root itself or one below it (rel).
GlobPaths(r) == [kind |-> "paths", rel |-> r, strerror |-> ""]

GlobError(strerror, r) == [kind |-> "OSError", rel |-> r, strerror |-> strerror]

GlobResults ==
    {GlobPaths(r) : r \in {<<>>, <<"BUCK">>, <<"BUCK", "sub/BUCK">>}}
    \cup {GlobError("[Errno 5] Input/output error: ", <<>>),
          GlobError("[Errno 36] File name too long: ", <<"/", "sub">>)}

RootLooks ==
    {[exists |-> e, glob |-> g] : e \in BOOLEAN, g \in GlobResults}

\* A path with a component longer than a file name may be (NAME_MAX):
\* os.path.exists answers False for it.
NameTooLong(path) == \E i \in 1..Len(path) : PieceLen(path[i]) > 1

\* str(Path(root_path) / rel)
PathStr(root_path, rel) == root_path \o <<"/", rel>>

\* The except clause of get_buck2_root.
get_buck2_root_except(exc) == Return(JsonDumps(<<StrField("error", exc.msg)>>))

\* The tail of get_buck2_root, once the runner has returned result.
get_buck2_root_post(result, look) ==
    IF result.success
    THEN LET root_path == Strip(result.stdout)
             exists == root_path # <<>> /\ look.exists
         IN  IF exists /\ look.glob.kind = "OSError"
             THEN get_buck2_root_except(
                      [type |-> "OSError",
                       msg |-> <<look.glob.strerror>> \o
                               Repr(root_path \o look.glob.rel)])
             ELSE Return(JsonDumps(
                      <<StrField("project_root", root_path),
                        ListField("buck_files",
                            IF exists
                            THEN [i \in 1..Len(look.glob.rel) |->
                                      PathStr(root_path, look.glob.rel[i])]
                            ELSE <<>>)>>))
    ELSE Return(JsonDumps(<<StrField("error", result.stderr)>>))

config_files == <<".buckconfig", ".buckconfig.local">>

\* What one configuration file is found to be: absent when
\* os.path.exists asks; or there then and, when it is opened, gone, not
\* to be opened, a directory, or a file of some bytes.
FileAbsent == [kind |-> "absent", data |-> <<>>]

FileVanished == [kind |-> "vanished", data |-> <<>>]

FileDenied == [kind |-> "denied", data |-> <<>>]

FileIsDir == [kind |-> "dir", data |-> <<>>]

FileWith(d) == [kind |-> "file", data |-> d]

OpenStates ==
    {FileVanished, FileDenied, FileIsDir} \cup
    {FileWith(d) : d \in BytesUpTo(MaxFile)}

\* open(config_file, 'r').read()
ReadText(config_file, f) ==
    CASE f.kind = "vanished" ->
            Raise("FileNotFoundError",
                  <<"[Errno 2] No such file or directory: '", config_file, "'">>)
      [] f.kind = "denied" ->
            Raise("PermissionError",
                  <<"[Errno 13] Permission denied: '", config_file, "'">>)
      [] f.kind = "dir" ->
            Raise("IsADirectoryError",
                  <<"[Errno 21] Is a directory: '", config_file, "'">>)
      [] OTHER ->
            IF Decodable(f.data) THEN Return(DecodeText(f.data))
            ELSE Raise("UnicodeDecodeError", UnicodeDecodeErrorMsg(f.data))

\* A faulty config_read: a file that cannot be read is reported as absent.
config_read_error_as_absent(config_file, f) ==
    LET r == ReadText(config_file, f) IN
    IF r.kind = "return" THEN r.value ELSE <<"File not found">>

\* The try statement of get_buck2_config's loop: the entry of a file that
\* os.path.exists found and open finds as f.
config_read(config_file, f) ==
    LET r == ReadText(config_file, f) IN
    IF r.kind = "return" THEN r.value
    ELSE <<"Error reading ", config_file, ": ">> \o r.exc.msg

\* The body of get_buck2_config's loop: the entry of one file found as f.
config_entry(config_file, f) ==
    IF f.kind # "absent" THEN config_read(config_file, f)
    ELSE <<"File not found">>

\* ---------------------------------------------------------------- state

Threads == 1..NumThreads

VARIABLES
    pc,              \* where each request stands: idle, run, child, ran,
                     \* config, open, done
    req,             \* the operation called and the parameters given
    args,            \* local args of the handler, the runner's argument
    result,          \* local result of the handler, the runner's return value
    config_content,  \* local config_content of get_buck2_config
    ret,             \* what the call came to: a return value or an exception
    spawned,         \* calls of subprocess.run made for the request
    calls,           \* calls of run_buck2_command made for the request
    proc,            \* what the runner met: no cwd, or the child's launch
    look,            \* what the filesystem answered get_buck2_root
    seen             \* the state of each configuration file when it was read

vars == <<pc, req, args, result, config_content, ret, spawned, calls, proc,
          look, seen>>

NoValue == [kind |-> "none"]

NoReq == [op |-> None, a |-> None, f |-> None]

\* A faulty Frame: the locals live in one module-level place all calls share.
SharedFrame(t) == 1

\* The frame holding the locals of request t: each call has its own.
Frame(t) == t

Init ==
    /\ pc = [t \in Threads |-> "idle"]
    /\ req = [t \in Threads |-> NoReq]
    /\ args = [t \in Threads |-> <<>>]
    /\ result = [t \in Threads |-> NoValue]
    /\ config_content = [t \in Threads |-> <<>>]
    /\ ret = [t \in Threads |-> NoValue]
    /\ spawned = [t \in Threads |-> 0]
    /\ calls = [t \in Threads |-> 0]
    /\ proc = [t \in Threads |-> NoValue]
    /\ look = [t \in Threads |-> NoValue]
    /\ seen = [t \in Threads |-> <<>>]

\* Each handler starts by assembling args from its parameters.
buck2_build(t) ==
    /\ pc[t] = "idle"
    /\ \E targets \in Targets :
        /\ req' = [req EXCEPT ![t] = [op |-> "build", a |-> targets, f |-> None]]
        /\ args' = [args EXCEPT ![Frame(t)] = buck2_build_args(targets)]
    /\ pc' = [pc EXCEPT ![t] = "run"]
    /\ UNCHANGED <<result, config_content, ret, spawned, calls, proc, look,
                   seen>>

buck2_test(t) ==
    /\ pc[t] = "idle"
    /\ \E targets \in Targets :
        /\ req' = [req EXCEPT ![t] = [op |-> "test", a |-> targets, f |-> None]]
        /\ args' = [args EXCEPT ![Frame(t)] = buck2_test_args(targets)]
    /\ pc' = [pc EXCEPT ![t] = "run"]
    /\ UNCHANGED <<result, config_content, ret, spawned, calls, proc, look,
                   seen>>

buck2_query(t) ==
    /\ pc[t] = "idle"
    /\ \E query \in Queries, output_format \in Formats \cup {None} :
        /\ req' = [req EXCEPT ![t] =
                      [op |-> "query", a |-> query, f |-> output_format]]
        /\ args' = [args EXCEPT ![Frame(t)] =
                       buck2_query_args(query, output_format)]
    /\ pc' = [pc EXCEPT ![t] = "run"]
    /\ UNCHANGED <<result, config_content, ret, spawned, calls, proc, look,
                   seen>>

buck2_targets(t) ==
    /\ pc[t] = "idle"
    /\ \E pattern \in Targets \cup {None} :
        /\ req' = [req EXCEPT ![t] = [op |-> "targets", a |-> pattern, f |-> None]]
        /\ args' = [args EXCEPT ![Frame(t)] = buck2_targets_args(pattern)]
    /\ pc' = [pc EXCEPT ![t] = "run"]
    /\ UNCHANGED <<result, config_content, ret, spawned, calls, proc, look,
                   seen>>

get_buck2_root(t) ==
    /\ pc[t] = "idle"
    /\ req' = [req EXCEPT ![t] = [op |-> "root", a |-> None, f |-> None]]
    /\ args' = [args EXCEPT ![Frame(t)] = get_buck2_root_args]
    /\ pc' = [pc EXCEPT ![t] = "run"]
    /\ UNCHANGED <<result, config_content, ret, spawned, calls, proc, look,
                   seen>>

get_buck2_config(t) ==
    /\ pc[t] = "idle"
    /\ req' = [req EXCEPT ![t] = [op |-> "config", a |-> None, f |-> None]]
    /\ config_content' = [config_content EXCEPT ![Frame(t)] = <<>>]
    /\ pc' = [pc EXCEPT ![t] = "config"]
    /\ UNCHANGED <<args, result, ret, spawned, calls, proc, look, seen>>

\* The handler calls run_buck2_command, which evaluates os.getcwd() and
\* calls subprocess.run: the child is launched and the call waits for it.
\* With the working directory gone os.getcwd() raises FileNotFoundError,
\* nothing is launched and the except clause makes the result.
RunCommand(t) ==
    /\ pc[t] = "run"
    /\ calls' = [calls EXCEPT ![t] = @ + 1]
    /\ \/ /\ spawned' = [spawned EXCEPT ![t] = @ + 1]
          /\ pc' = [pc EXCEPT ![t] = "child"]
          /\ UNCHANGED <<result, proc>>
       \/ /\ proc' = [proc EXCEPT ![t] = NoCwd]
          /\ result' = [result EXCEPT ![Frame(t)] =
                           run_buck2_command(args[Frame(t)], NoCwd).value]
          /\ pc' = [pc EXCEPT ![t] = "ran"]
          /\ UNCHANGED spawned
    /\ UNCHANGED <<req, args, config_content, ret, look, seen>>

\* A faulty SubprocessDone: a child that exits non-zero is launched again.
SubprocessDoneRetry(t, launches) ==
    /\ pc[t] = "child"
    /\ \E p \in launches :
        LET r == run_buck2_command(args[Frame(t)], p) IN
        /\ proc' = [proc EXCEPT ![t] = p]
        /\ IF r.kind = "return"
           THEN /\ result' = [result EXCEPT ![Frame(t)] = r.value]
                /\ pc' = [pc EXCEPT ![t] =
                             IF r.value.success \/ p.kind # "exited"
                             THEN "ran" ELSE "child"]
                /\ spawned' = [spawned EXCEPT ![t] =
                                  IF r.value.success \/ p.kind # "exited"
                                  THEN @ ELSE @ + 1]
                /\ ret' = ret
           ELSE /\ result' = result
                /\ spawned' = spawned
                /\ pc' = [pc EXCEPT ![t] = "done"]
                /\ ret' = [ret EXCEPT ![t] =
                              IF req[t].op = "root"
                              THEN get_buck2_root_except(r.exc)
                              ELSE r]
    /\ UNCHANGED <<req, args, config_content, calls, look, seen>>

\* subprocess.run is over: the launch failed or the child has exited.  What
\* the runner returns becomes the handler's result; what it raises leaves a
\* tool handler as it is and is caught by get_buck2_root.
SubprocessDone(t, launches) ==
    /\ pc[t] = "child"
    /\ \E p \in launches :
        LET r == run_buck2_command(args[Frame(t)], p) IN
        /\ proc' = [proc EXCEPT ![t] = p]
        /\ IF r.kind = "return"
           THEN /\ result' = [result EXCEPT ![Frame(t)] = r.value]
                /\ pc' = [pc EXCEPT ![t] = "ran"]
                /\ ret' = ret
           ELSE /\ result' = result
                /\ pc' = [pc EXCEPT ![t] = "done"]
                /\ ret' = [ret EXCEPT ![t] =
                              IF req[t].op = "root"
                              THEN get_buck2_root_except(r.exc)
                              ELSE r]
    /\ UNCHANGED <<req, args, config_content, spawned, calls, look, seen>>

\* buck2_build, buck2_test and buck2_targets return the runner's result.
ReturnResult(t) ==
    /\ pc[t] = "ran"
    /\ req[t].op \in {"build", "test", "targets"}
    /\ ret' = [ret EXCEPT ![t] = Return(result[Frame(t)])]
    /\ pc' = [pc EXCEPT ![t] = "done"]
    /\ UNCHANGED <<req, args, result, config_content, spawned, calls, proc,
                   look, seen>>

\* buck2_query after the runner: the result dict is extended in place and
\* returned, or json.loads raises something the handler does not catch.
QueryPost(t) ==
    /\ pc[t] = "ran"
    /\ req[t].op = "query"
    /\ LET r == buck2_query_post(req[t].f, result[Frame(t)]) IN
        /\ result' = [result EXCEPT ![Frame(t)] =
                         IF r.kind = "return" THEN r.value ELSE @]
        /\ ret' = [ret EXCEPT ![t] = r]
    /\ pc' = [pc EXCEPT ![t] = "done"]
    /\ UNCHANGED <<req, args, config_content, spawned, calls, proc, look,
                   seen>>

\* get_buck2_root after the runner, with what the filesystem answers: no
\* path with an over-long name exists.
RootPost(t, looks) ==
    /\ pc[t] = "ran"
    /\ req[t].op = "root"
    /\ \E k \in looks :
        /\ NameTooLong(Strip(result[Frame(t)].stdout)) => ~k.exists
        /\ look' = [look EXCEPT ![t] = k]
        /\ ret' = [ret EXCEPT ![t] = get_buck2_root_post(result[Frame(t)], k)]
    /\ pc' = [pc EXCEPT ![t] = "done"]
    /\ UNCHANGED <<req, args, result, config_content, spawned, calls, proc,
                   seen>>

\* One round of get_buck2_config's loop, up to os.path.exists(config_file):
\* a file that is not there gets its entry, one that is will be opened.
ConfigExists(t) ==
    /\ pc[t] = "config"
    /\ Len(seen[t]) < Len(config_files)
    /\ LET config_file == config_files[Len(seen[t]) + 1] IN
       \/ /\ config_content' = [config_content EXCEPT ![Frame(t)] =
                Append(@, StrField(config_file,
                                   config_entry(config_file, FileAbsent)))]
          /\ seen' = [seen EXCEPT ![t] = Append(@, FileAbsent)]
          /\ pc' = pc
       \/ /\ pc' = [pc EXCEPT ![t] = "open"]
          /\ UNCHANGED <<config_content, seen>>
    /\ UNCHANGED <<req, args, result, ret, spawned, calls, proc, look>>

\* The rest of the round: the file is opened and read, or that fails.
ConfigOpen(t, opens) ==
    /\ pc[t] = "open"
    /\ \E f \in opens :
        LET config_file == config_files[Len(seen[t]) + 1] IN
        /\ config_content' = [config_content EXCEPT ![Frame(t)] =
               Append(@, StrField(config_file, config_read(config_file, f)))]
        /\ seen' = [seen EXCEPT ![t] = Append(@, f)]
    /\ pc' = [pc EXCEPT ![t] = "config"]
    /\ UNCHANGED <<req, args, result, ret, spawned, calls, proc, look>>

\* get_buck2_config after the loop.
ConfigReturn(t) ==
    /\ pc[t] = "config"
    /\ Len(seen[t]) = Len(config_files)
    /\ ret' = [ret EXCEPT ![t] = Return(JsonDumps(config_content[Frame(t)]))]
    /\ pc' = [pc EXCEPT ![t] = "done"]
    /\ UNCHANGED <<req, args, result, config_content, spawned, calls, proc,
                   look, seen>>

\* The response is sent and the frame is gone.
Finish(t) ==
    /\ pc[t] = "done"
    /\ pc' = [pc EXCEPT ![t] = "idle"]
    /\ req' = [req EXCEPT ![t] = NoReq]
    /\ args' = [args EXCEPT ![Frame(t)] = <<>>]
    /\ result' = [result EXCEPT ![Frame(t)] = NoValue]
    /\ config_content' = [config_content EXCEPT ![Frame(t)] = <<>>]
    /\ ret' = [ret EXCEPT ![t] = NoValue]
    /\ spawned' = [spawned EXCEPT ![t] = 0]
    /\ calls' = [calls EXCEPT ![t] = 0]
    /\ proc' = [proc EXCEPT ![t] = NoValue]
    /\ look' = [look EXCEPT ![t] = NoValue]
    /\ seen' = [seen EXCEPT ![t] = <<>>]

Step(t, launches, looks, opens) ==
    \/ buck2_build(t)
    \/ buck2_test(t)
    \/ buck2_query(t)
    \/ buck2_targets(t)
    \/ get_buck2_root(t)
    \/ get_buck2_config(t)
    \/ RunCommand(t)
    \/ SubprocessDone(t, launches)
    \/ ReturnResult(t)
    \/ QueryPost(t)
    \/ RootPost(t, looks)
    \/ ConfigExists(t)
    \/ ConfigOpen(t, opens)
    \/ ConfigReturn(t)
    \/ Finish(t)

\* One request at a time, against every environment within the bounds.
Next == Step(1, Launches, RootLooks, OpenStates)

Spec == Init /\ [][Next]_vars

\* Requests in flight together, against a few environments.
ConcLaunches ==
    {LaunchDenied,
     Exited(0, <<"1", "\r", "\n">>, <<>>),
     Exited(1, <<>>, <<"1">>)}

ConcLooks == {[exists |-> TRUE, glob |-> GlobPaths(<<"BUCK">>)]}

ConcOpens == {FileVanished, FileWith(<<"1">>)}

ConcNext == \E t \in Threads : Step(t, ConcLaunches, ConcLooks, ConcOpens)

ConcSpec == Init /\ [][ConcNext]_vars

\* ------------------------------------------------------------- properties

ToolOps == {"build", "test", "query", "targets"}

RunnerOps == ToolOps \cup {"root"}

ResultKeys == {"success", "stdout", "stderr", "returncode", "command"}

\* A request that has come to its end with a value returned to the caller.
Returned(t) == pc[t] = "done" /\ ret[t].kind = "return"

RECURSIVE NormalizedFrom(_, _)
\* b from index i on with every line ending written as "\n": a "\r"
\* reads "\n", and a "\n" right after a "\r" is part of that line ending.
NormalizedFrom(b, i) ==
    IF i > Len(b) THEN <<>>
    ELSE (IF b[i] = "\r" THEN <<"\n">>
          ELSE IF b[i] = "\n" /\ i > 1 /\ b[i - 1] = "\r" THEN <<>>
          ELSE <<b[i]>>) \o NormalizedFrom(b, i + 1)

\* The documented argument vector of a tool request.
Template(r) ==
    CASE r.op = "build" -> <<"build", r.a>>
      [] r.op = "test" -> <<"test", r.a>>
      [] r.op = "query" ->
            <<"cquery", r.a, "--output-format",
              IF r.f = None THEN "json" ELSE r.f>>
      [] r.op = "targets" ->
            <<"targets", IF r.a = None THEN "//..." ELSE r.a>>

\* The words of v with one space between neighbours.
CommandLine(v) ==
    [i \in 1..(2 * Len(v) - 1) |->
        IF i % 2 = 1 THEN v[(i + 1) \div 2] ELSE " "]

\* The launch of request t's child failed because no directory of the
\* search path holds the tool: the last candidate tried gave "no such file
\* or directory", or "not a directory" where a path entry is a plain file.
ToolAbsent(t) == proc[t].kind \in {"ENOENT", "ENOTDIR"}

\* C1: when the tool is absent from the search path, every operation that
\* uses the runner returns instead of raising, and the runner's result has
\* success false, exit code 127, empty stdout and a non-empty stderr that
\* names the tool; a tool handler returns that very result.
NotFoundIsReported ==
    \A t \in Threads :
        (pc[t] = "done" /\ req[t].op \in RunnerOps /\ ToolAbsent(t))
        => /\ ret[t].kind = "return"
           /\ DOMAIN result[t] = ResultKeys
           /\ result[t].success = FALSE
           /\ result[t].returncode = 127
           /\ result[t].stdout = <<>>
           /\ result[t].stderr # <<>>
           /\ "buck2" \in Range(result[t].stderr)
           /\ req[t].op \in ToolOps => ret[t].value = result[t]

\* C2: no call ends in an exception: every request, whatever fails while
\* the child is launched, its output decoded, JSON parsed or a file read,
\* ends by returning a value.
NoExceptionEscapes ==
    \A t \in Threads : pc[t] = "done" => ret[t].kind = "return"

\* C3 as stated: in every result a tool handler returns, success holds
\* exactly when the exit code is 0, and when the child ran, stdout, stderr
\* and the exit code are exactly what the child produced.
ResultIsChildOutputVerbatim ==
    \A t \in Threads :
        (Returned(t) /\ req[t].op \in ToolOps)
        => /\ ret[t].value.success <=> ret[t].value.returncode = 0
           /\ proc[t].kind = "exited" =>
                /\ ret[t].value.returncode = proc[t].returncode
                /\ ret[t].value.stdout = proc[t].out
                /\ ret[t].value.stderr = proc[t].err

\* C3 as amended: in every result a tool handler returns, success holds
\* exactly when the exit code is 0, and when the child ran, the exit code is
\* the child's and stdout and stderr are the child's output with every line
\* ending ("\r\n" or a lone "\r") written as "\n" and nothing else changed.
ResultIsChildOutputAsText ==
    \A t \in Threads :
        (Returned(t) /\ req[t].op \in ToolOps)
        => /\ ret[t].value.success <=> ret[t].value.returncode = 0
           /\ proc[t].kind = "exited" =>
                /\ ret[t].value.returncode = proc[t].returncode
                /\ ret[t].value.stdout = NormalizedFrom(proc[t].out, 1)
                /\ ret[t].value.stderr = NormalizedFrom(proc[t].err, 1)

ResultWitness ==
    \E t \in Threads :
        /\ Returned(t)
        /\ req[t].op = "targets"
        /\ proc[t].kind = "exited"
        /\ proc[t].returncode < 0
        /\ "\r" \in Range(proc[t].out)
        /\ ret[t].value.stdout # proc[t].out

\* C4: the vector a tool handler hands to the runner is its template with
\* the caller's parameters (and the defaults "json" and "//...") put in, and
\* the command of the result is the tool name and that vector with single
\* spaces between them.
ArgsFollowTemplate ==
    \A t \in Threads :
        /\ (pc[t] \in {"run", "child", "ran", "done"} /\ req[t].op \in ToolOps)
           => args[t] = Template(req[t])
        /\ (Returned(t) /\ req[t].op \in ToolOps)
           => ret[t].value.command =
                  CommandLine(<<"buck2">> \o Template(req[t]))

ArgsWitness ==
    \E t \in Threads :
        /\ Returned(t)
        /\ req[t].op = "targets"
        /\ req[t].a = None
        /\ ret[t].value.command = <<"buck2", " ", "targets", " ", "//...">>

\* C5: a returned result holds parsed_output exactly when the operation is
\* query, the format is "json", the run succeeded and stdout decodes as
\* JSON, and then parsed_output is the decoded value of stdout.
ParsedOutputIff ==
    \A t \in Threads :
        (Returned(t) /\ req[t].op \in ToolOps)
        => LET v == ret[t].value IN
           /\ "parsed_output" \in DOMAIN v
              <=> /\ req[t].op = "query"
                  /\ req[t].f \in {None, "json"}
                  /\ v.returncode = 0
                  /\ JsonLoads(v.stdout).ok
           /\ "parsed_output" \in DOMAIN v
              => v.parsed_output = JsonLoads(v.stdout).val

ParsedOutputWitness ==
    \E t \in Threads :
        /\ Returned(t)
        /\ req[t].op = "query"
        /\ "parsed_output" \in DOMAIN ret[t].value
        /\ ret[t].value.parsed_output =
               [t |-> "list", v |-> << [t |-> "int", v |-> 1] >>]

\* Text with LongDigits cut down to one digit: the same JSON or none.
Shortened(s) == [i \in 1..Len(s) |-> IF s[i] = LongDigits THEN "1" ELSE s[i]]

\* The bytes a child wrote to stdout are no JSON document: they are no
\* text, or arrays are left open, or the text is outside the grammar.
NotJson(out) ==
    \/ ~Decodable(out)
    \/ DeepOpen \in Range(out)
    \/ ~JsonLoads(Shortened(NormalizedFrom(out, 1))).ok

\* C6: a query for "json" whose child exits 0 with stdout that is no JSON
\* returns normally, and what it returns is what the runner produced, with
\* success true, nothing added and nothing changed.
DecodeFailureIsTolerated ==
    \A t \in Threads :
        ( /\ pc[t] = "done"
          /\ req[t].op = "query"
          /\ req[t].f \in {None, "json"}
          /\ proc[t].kind = "exited"
          /\ proc[t].returncode = 0
          /\ NotJson(proc[t].out) )
        => /\ ret[t].kind = "return"
           /\ ret[t].value = run_buck2_command(args[t], proc[t]).value
           /\ DOMAIN ret[t].value = ResultKeys
           /\ ret[t].value.success = TRUE

\* C7 as stated: a call of the runner launches exactly one child and never
\* again, whatever the launch comes to, so a request of an operation that
\* uses the runner has launched exactly one child once the runner is
\* through, and the configuration reader launches none.
OneChildPerRequest ==
    \A t \in Threads :
        /\ spawned[t] <= 1
        /\ (pc[t] \in {"ran", "done"} /\ req[t].op \in RunnerOps)
           => spawned[t] = 1
        /\ req[t].op = "config" => spawned[t] = 0

\* C7 as amended: a call of the runner launches at most one child and never
\* again, whatever the launch comes to: exactly one when the working
\* directory can be determined, and none when it cannot, where the runner
\* returns the tool-not-found result without a launch; a request calls the
\* runner at most once, and the configuration reader launches none.
AtMostOneChildPerRequest ==
    \A t \in Threads :
        /\ spawned[t] <= 1
        /\ calls[t] <= 1
        /\ spawned[t] <= calls[t]
        /\ (pc[t] \in {"ran", "done"} /\ req[t].op \in RunnerOps)
           => /\ calls[t] = 1
              /\ spawned[t] = IF proc[t].kind = "NOCWD" THEN 0 ELSE 1
        /\ req[t].op = "config" => calls[t] = 0

AtMostOneChildWitness ==
    \E t \in Threads :
        /\ Returned(t)
        /\ req[t].op = "build"
        /\ ret[t].value.returncode = 127
        /\ spawned[t] = 0
        /\ proc[t].kind = "NOCWD"

\* A file the reader can read: it is there, opens and decodes.
Readable(f) == f.kind = "file" /\ Decodable(f.data)

\* The entry the reader has for a file named name found in state f, with
\* the text of a readable file being as(f.data).
EntryFor(name, f, v, text) ==
    /\ f.kind = "absent" => v = <<"File not found">>
    /\ Readable(f) => v = text
    /\ (f.kind # "absent" /\ ~Readable(f))
       => /\ v[1] = "Error reading "
          /\ name \in Range(v)

ConfigMapping(t, verbatim) ==
    LET c == config_content[t] IN
    /\ ret[t].kind = "return"
    /\ Len(c) = 2
    /\ c[1].k = ".buckconfig"
    /\ c[2].k = ".buckconfig.local"
    /\ \A i \in 1..2 :
        EntryFor(c[i].k, seen[t][i], c[i].v,
                 IF verbatim THEN seen[t][i].data
                 ELSE NormalizedFrom(seen[t][i].data, 1))
    /\ ret[t].value = JsonDumps(<<StrField(".buckconfig", c[1].v),
                                  StrField(".buckconfig.local", c[2].v)>>)

\* C8 as stated: the configuration reader always returns the serialized
\* mapping of exactly the two file names, an absent file to "File not
\* found", a readable file to its content verbatim, an unreadable file to
\* an error message naming it, each entry decided by its own file alone.
ConfigEntriesVerbatim ==
    \A t \in Threads :
        (pc[t] = "done" /\ req[t].op = "config") => ConfigMapping(t, TRUE)

\* C8 as amended: as stated, but a readable file maps to its content with
\* every line ending ("\r\n" or a lone "\r") written as "\n" and nothing
\* else changed.
ConfigEntriesAsText ==
    \A t \in Threads :
        (pc[t] = "done" /\ req[t].op = "config") => ConfigMapping(t, FALSE)

ConfigWitness ==
    \E t \in Threads :
        /\ Returned(t)
        /\ req[t].op = "config"
        /\ seen[t][1] = FileWith(<<"1", "\r">>)
        /\ seen[t][2] = FileIsDir
        /\ config_content[t][1].v = <<"1", "\n">>

\* s without the whitespace before its first and after its last character
\* that is none.
Trimmed(s) ==
    LET solid == {i \in 1..Len(s) : s[i] \notin {" ", "\t", "\n", "\r"}} IN
    IF solid = {} THEN <<>>
    ELSE SubSeq(s, CHOOSE i \in solid : \A j \in solid : i <= j,
                   CHOOSE i \in solid : \A j \in solid : i >= j)

\* The serialized text is an object whose first field is error.
IsErrorObject(text) ==
    /\ Len(text) >= 11
    /\ SubSeq(text, 1, 8) = <<"{", "\n", "  ", "\"", "error", "\"", ": ", "\"">>

\* C9: the project-root reader calls the runner once with the root-lookup
\* vector and returns one of two shapes: after a lookup that succeeded, the
\* object of project_root, the lookup's stdout trimmed, and the build-file
\* listing; after a lookup that failed, the tool-not-found result included,
\* the object whose error is the stderr of the runner's result; and an
\* exception raised while files are listed comes back as an error object.
RootReaderShapes ==
    \A t \in Threads :
        (pc[t] = "done" /\ req[t].op = "root")
        => /\ ret[t].kind = "return"
           /\ calls[t] = 1
           /\ args[t] = <<"root", "--kind=project">>
           /\ IF DOMAIN result[t] = ResultKeys /\ result[t].success
              THEN LET root == Trimmed(result[t].stdout)
                       listed == root # <<>> /\ look[t].exists
                   IN  IF listed /\ look[t].glob.kind # "paths"
                       THEN IsErrorObject(ret[t].value)
                       ELSE ret[t].value = JsonDumps(
                               <<StrField("project_root", root),
                                 ListField("buck_files",
                                    IF listed
                                    THEN [i \in 1..Len(look[t].glob.rel) |->
                                            root \o <<"/">>
                                            \o <<look[t].glob.rel[i]>>]
                                    ELSE <<>>)>>)
              ELSE /\ "stderr" \in DOMAIN result[t]
                   /\ ret[t].value =
                         JsonDumps(<<StrField("error", result[t].stderr)>>)

\* What a request comes to when it runs from entry to return with nothing
\* else in flight: request r, its child's launch p, and the filesystem's
\* answers k (to the root reader) and fs (to the configuration reader).
Alone(r, p, k, fs) ==
    CASE r.op = "build" -> run_buck2_command(buck2_build_args(r.a), p)
      [] r.op = "test" -> run_buck2_command(buck2_test_args(r.a), p)
      [] r.op = "targets" -> run_buck2_command(buck2_targets_args(r.a), p)
      [] r.op = "query" ->
            LET x == run_buck2_command(buck2_query_args(r.a, r.f), p) IN
            IF x.kind = "raise" THEN x
            ELSE buck2_query_post(r.f, x.value)
      [] r.op = "root" ->
            LET x == run_buck2_command(get_buck2_root_args, p) IN
            IF x.kind = "raise" THEN get_buck2_root_except(x.exc)
            ELSE get_buck2_root_post(x.value, k)
      [] r.op = "config" ->
            Return(JsonDumps(
                [i \in 1..Len(config_files) |->
                    StrField(config_files[i],
                             config_entry(config_files[i], fs[i]))]))

\* C10: with requests in flight together in any order of their steps, what
\* each returns is what its own parameters, its own child and its own reads
\* of the filesystem give when it runs alone.
NoInterference ==
    \A t \in Threads :
        pc[t] = "done" => ret[t] = Alone(req[t], proc[t], look[t], seen[t])

NoInterferenceWitness ==
    \E t \in Threads, u \in Threads :
        /\ t # u
        /\ pc[t] = "done" /\ pc[u] = "done"
        /\ req[t].op = "query" /\ req[u].op = "build"
        /\ proc[t].kind = "exited" /\ proc[t].returncode = 0
        /\ proc[u].kind = "exited" /\ proc[u].returncode = 1
        /\ "parsed_output" \in DOMAIN ret[t].value
        /\ ret[u].value.success = FALSE

====
